---------------------------- MODULE Spec2Model ----------------------------
(***************************************************************************)
(* SuperPicky: the rating engine (src/core/rating_engine.py) and the CLI   *)
(* pipeline (src/cli_processor.py): scan, RAW conversion pool, per-photo   *)
(* rating, picked-flag selection, file organisation and temp cleanup.      *)
(*                                                                         *)
(* Units.  Scores are floats in the code; here they are integers on a      *)
(* grid: confidence in hundredths (0.80 is 80), nima in tenths (4.8 is     *)
(* 48), sharpness and brisque in units.  An Optional[float] is the empty   *)
(* sequence (None) or a one-element sequence <<v>>.                        *)
(***************************************************************************)
EXTENDS Integers, Sequences, FiniteSets, TLC

VARIABLES
    engine,     \* RatingEngine fields: the floor and upgrade thresholds
    call,       \* the last RatingEngine.calculate call: thresholds, inputs, result
    prev,       \* the call before it, kept when it had the same thresholds and inputs
    pc,             \* the stage CLIProcessor.process is in
    root,           \* the files at the root of dir_path, as <<prefix, ext>>
    folders,        \* the rating folders under dir_path: rating -> [exists, files]
    manifest,       \* _superpicky_manifest.json on disk: None or <<document>>
    config,         \* self.config (advanced config) of the processor
    organize_files, \* process(organize_files=...)
    cleanup_temp,   \* process(cleanup_temp=...)
    raw_dict,       \* prefix -> raw extension, in insertion order
    jpg_dict,       \* prefix -> preview extension, in insertion order
    files_tbr,      \* the review list: preview file names to rate
    tasks,          \* raw_files_to_convert: the prefixes to convert, in order
    pops,           \* prefix -> number of times jpg_dict.pop removed it
    taskState,      \* task index -> queued, running, ok, fail, taken_ok, taken_fail
    convCalls,      \* prefix -> number of raw_to_jpeg calls for it
    idx,            \* the loop index of the running stage
    cliCall,        \* the last _calculate_rating call: config, inputs, result
    topCall,        \* the last top_count computed: percentage, cohort size, result
    stats,          \* self.stats (the counters)
    file_ratings,   \* prefix -> rating, in insertion order
    star_3_photos,  \* the candidates collected for the picked flag
    meta,           \* raw file -> the metadata last written to it
    files_to_move,  \* the move records selected by this move step
    moved_count,    \* moved_count of this move step
    deleted_count,  \* deleted_count of the cleanup step
    invocation,     \* the number of move steps started
    log             \* what the run has logged or done, as a set of events

engineVars == <<engine, call, prev>>

callVars == <<cliCall, topCall>>

fsVars == <<root, folders, manifest>>

cliVars ==
    <<pc, root, folders, manifest, config, organize_files, cleanup_temp, raw_dict,
      jpg_dict, files_tbr, tasks, pops, taskState, convCalls, idx, callVars, stats,
      file_ratings, star_3_photos, meta, files_to_move, moved_count, deleted_count, invocation, log>>

vars == <<engineVars, cliVars>>

-----------------------------------------------------------------------------
(* Optional values *)

None == <<>>

Some(v) == <<v>>

IsNone(x) == x = <<>>

Val(x) == x[1]

\* (mutant) no score counts as below its floor
NeverBelow(x, lim) == FALSE

\* (mutant) a missing score counts as meeting the threshold
AbsentOrAtLeast(x, lim) == IsNone(x) \/ Val(x) >= lim

\* "x is not None and x < lim", "x is not None and x > lim", "x is not None and x >= lim"
PresentBelow(x, lim) == (~IsNone(x)) /\ Val(x) < lim

PresentAbove(x, lim) == (~IsNone(x)) /\ Val(x) > lim

PresentAtLeast(x, lim) == (~IsNone(x)) /\ Val(x) >= lim

-----------------------------------------------------------------------------
(* RatingEngine, src/core/rating_engine.py *)

\* RatingEngine.__init__ defaults
DefaultMinConfidence == 50
DefaultMinSharpness == 6500
DefaultMinNima == 43
DefaultMaxBrisque == 55
DefaultSharpnessThreshold == 7500
DefaultNimaThreshold == 48

\* threshold values an engine is constructed with: the defaults, and floors
\* that lie above the upgrade thresholds
FloorChoices ==
    { [min_confidence |-> DefaultMinConfidence, min_sharpness |-> DefaultMinSharpness,
       min_nima |-> DefaultMinNima, max_brisque |-> DefaultMaxBrisque],
      [min_confidence |-> DefaultMinConfidence, min_sharpness |-> 7800,
       min_nima |-> 49, max_brisque |-> DefaultMaxBrisque] }
SharpnessThresholdChoices == {DefaultSharpnessThreshold, 8000}
NimaThresholdChoices == {DefaultNimaThreshold, 50}

\* inputs of calculate: below, at and above each threshold
Confidences == {30, 50, 80}
Sharpnesses == {6000, 6500, 7500, 8000}
Nimas == {None} \cup {Some(v) : v \in {40, 43, 48, 50}}
Brisques == {None} \cup {Some(v) : v \in {20, 55, 60}}

Ratings == {-1, 0, 1, 2, 3}

EngineInputs ==
    [detected : BOOLEAN, confidence : Confidences, sharpness : Sharpnesses,
     nima : Nimas, brisque : Brisques]

\* (mutant) a three-star result carries the picked flag
RatingResultPicked(rating, pick, reason) == [rating |-> rating, pick |-> IF rating = 3 THEN 1 ELSE pick, reason |-> reason]

RatingResult(rating, pick, reason) == [rating |-> rating, pick |-> pick, reason |-> reason]

\* the reason strings; the f-strings carry the triggering value and its limit
\* (:.0% of hundredths, :.1f of tenths, :.0f of units are exact on the grid)
Reason(kind, value, limit) == <<kind, value, limit>>

PlainReason(kind) == <<kind>>

\* (mutant) the distortion floor is checked before the confidence floor
calculate_brisque_first(eng, detected, confidence, sharpness, nima, brisque) ==
    LET sharpness_ok == sharpness >= eng.sharpness_threshold
        nima_ok == PresentAtLeast(nima, eng.nima_threshold)
    IN  IF ~detected
        THEN RatingResult(-1, -1, PlainReason("no_bird"))
        ELSE IF PresentAbove(brisque, eng.max_brisque)
        THEN RatingResult(0, 0, Reason("brisque_high", Val(brisque), eng.max_brisque))
        ELSE IF confidence < eng.min_confidence
        THEN RatingResult(0, 0, Reason("confidence_low", confidence, eng.min_confidence))
        ELSE IF PresentBelow(nima, eng.min_nima)
        THEN RatingResult(0, 0, Reason("nima_low", Val(nima), eng.min_nima))
        ELSE IF sharpness < eng.min_sharpness
        THEN RatingResult(0, 0, Reason("sharpness_low", sharpness, eng.min_sharpness))
        ELSE IF sharpness_ok /\ nima_ok
        THEN RatingResult(3, 0, PlainReason("dual_qualified"))
        ELSE IF sharpness_ok \/ nima_ok
        THEN IF sharpness_ok
             THEN RatingResult(2, 0, PlainReason("sharpness_qualified"))
             ELSE RatingResult(2, 0, PlainReason("nima_qualified"))
        ELSE RatingResult(0, 0, PlainReason("not_qualified"))

\* (mutant) the upgrade rules are tried before the floor checks
calculate_upgrade_first(eng, detected, confidence, sharpness, nima, brisque) ==
    LET sharpness_ok == sharpness >= eng.sharpness_threshold
        nima_ok == PresentAtLeast(nima, eng.nima_threshold)
    IN  IF ~detected
        THEN RatingResult(-1, -1, PlainReason("no_bird"))
        ELSE IF sharpness_ok /\ nima_ok
        THEN RatingResult(3, 0, PlainReason("dual_qualified"))
        ELSE IF sharpness_ok
        THEN RatingResult(2, 0, PlainReason("sharpness_qualified"))
        ELSE IF nima_ok
        THEN RatingResult(2, 0, PlainReason("nima_qualified"))
        ELSE IF confidence < eng.min_confidence
        THEN RatingResult(0, 0, Reason("confidence_low", confidence, eng.min_confidence))
        ELSE IF PresentAbove(brisque, eng.max_brisque)
        THEN RatingResult(0, 0, Reason("brisque_high", Val(brisque), eng.max_brisque))
        ELSE IF PresentBelow(nima, eng.min_nima)
        THEN RatingResult(0, 0, Reason("nima_low", Val(nima), eng.min_nima))
        ELSE IF sharpness < eng.min_sharpness
        THEN RatingResult(0, 0, Reason("sharpness_low", sharpness, eng.min_sharpness))
        ELSE RatingResult(0, 0, PlainReason("not_qualified"))

\* (mutant) the sharpness criterion is strict: a photo exactly at the
\* threshold does not qualify
calculate_strict_sharpness(eng, detected, confidence, sharpness, nima, brisque) ==
    LET sharpness_ok == sharpness > eng.sharpness_threshold
        nima_ok == PresentAtLeast(nima, eng.nima_threshold)
    IN  IF ~detected
        THEN RatingResult(-1, -1, PlainReason("no_bird"))
        ELSE IF confidence < eng.min_confidence
        THEN RatingResult(0, 0, Reason("confidence_low", confidence, eng.min_confidence))
        ELSE IF PresentAbove(brisque, eng.max_brisque)
        THEN RatingResult(0, 0, Reason("brisque_high", Val(brisque), eng.max_brisque))
        ELSE IF PresentBelow(nima, eng.min_nima)
        THEN RatingResult(0, 0, Reason("nima_low", Val(nima), eng.min_nima))
        ELSE IF sharpness < eng.min_sharpness
        THEN RatingResult(0, 0, Reason("sharpness_low", sharpness, eng.min_sharpness))
        ELSE IF sharpness_ok /\ nima_ok
        THEN RatingResult(3, 0, PlainReason("dual_qualified"))
        ELSE IF sharpness_ok \/ nima_ok
        THEN IF sharpness_ok
             THEN RatingResult(2, 0, PlainReason("sharpness_qualified"))
             ELSE RatingResult(2, 0, PlainReason("nima_qualified"))
        ELSE RatingResult(0, 0, PlainReason("not_qualified"))

\* RatingEngine.calculate: the rules in the order of the code, first match wins
calculate(eng, detected, confidence, sharpness, nima, brisque) ==
    LET sharpness_ok == sharpness >= eng.sharpness_threshold
        nima_ok == PresentAtLeast(nima, eng.nima_threshold)
    IN  IF ~detected
        THEN RatingResult(-1, -1, PlainReason("no_bird"))
        ELSE IF confidence < eng.min_confidence
        THEN RatingResult(0, 0, Reason("confidence_low", confidence, eng.min_confidence))
        ELSE IF PresentAbove(brisque, eng.max_brisque)
        THEN RatingResult(0, 0, Reason("brisque_high", Val(brisque), eng.max_brisque))
        ELSE IF PresentBelow(nima, eng.min_nima)
        THEN RatingResult(0, 0, Reason("nima_low", Val(nima), eng.min_nima))
        ELSE IF sharpness < eng.min_sharpness
        THEN RatingResult(0, 0, Reason("sharpness_low", sharpness, eng.min_sharpness))
        ELSE IF sharpness_ok /\ nima_ok
        THEN RatingResult(3, 0, PlainReason("dual_qualified"))
        ELSE IF sharpness_ok \/ nima_ok
        THEN IF sharpness_ok
             THEN RatingResult(2, 0, PlainReason("sharpness_qualified"))
             ELSE RatingResult(2, 0, PlainReason("nima_qualified"))
        ELSE RatingResult(0, 0, PlainReason("not_qualified"))

NoCall == [made |-> FALSE]

CallRecord(eng, in, out) == [made |-> TRUE, eng |-> eng, in |-> in, out |-> out]

\* RatingEngine.__init__
RatingEngine(min_confidence, min_sharpness, min_nima, max_brisque, sharpness_threshold, nima_threshold) ==
    [min_confidence |-> min_confidence, min_sharpness |-> min_sharpness,
     min_nima |-> min_nima, max_brisque |-> max_brisque,
     sharpness_threshold |-> sharpness_threshold, nima_threshold |-> nima_threshold]

EngineInit ==
    /\ \E f \in FloorChoices :
           engine = RatingEngine(f.min_confidence, f.min_sharpness, f.min_nima,
                                 f.max_brisque, DefaultSharpnessThreshold,
                                 DefaultNimaThreshold)
    /\ call = NoCall
    /\ prev = NoCall

\* (mutant) calculate keeps the aesthetic threshold it last compared against
EngineAfterCalculateStoring(eng) == [eng EXCEPT !.nima_threshold = 50]

\* the engine's fields after a calculate call: the method assigns none of them
EngineAfterCalculate(eng) == eng

\* one call of RatingEngine.calculate
Calculate ==
    \E in \in EngineInputs :
        /\ call' = CallRecord(engine, in,
                              calculate(engine, in.detected, in.confidence,
                                        in.sharpness, in.nima, in.brisque))
        /\ prev' = IF call.made /\ call.eng = engine /\ call.in = in THEN call ELSE NoCall
        /\ engine' = EngineAfterCalculate(engine)

\* RatingEngine.update_thresholds: each argument is optional
update_thresholds(eng, sharpness_threshold, nima_threshold) ==
    [eng EXCEPT !.sharpness_threshold =
                    IF IsNone(sharpness_threshold) THEN @ ELSE Val(sharpness_threshold),
                !.nima_threshold =
                    IF IsNone(nima_threshold) THEN @ ELSE Val(nima_threshold)]

UpdateThresholds ==
    \E s \in {None} \cup {Some(v) : v \in SharpnessThresholdChoices},
       n \in {None} \cup {Some(v) : v \in NimaThresholdChoices} :
        /\ engine' = update_thresholds(engine, s, n)
        /\ engine' # engine
        /\ call' = NoCall
        /\ prev' = NoCall

-----------------------------------------------------------------------------
(* Python containers *)

\* a dict is the sequence of its <<key, value>> items in insertion order
EmptyDict == <<>>

DictKeys(d) == {d[i][1] : i \in DOMAIN d}

Has(d, k) == k \in DictKeys(d)

Get(d, k) == d[CHOOSE i \in DOMAIN d : d[i][1] = k][2]

\* d[k] = v: a new key goes last, an existing key keeps its place
Put(d, k, v) ==
    IF Has(d, k)
    THEN [i \in DOMAIN d |-> IF d[i][1] = k THEN <<k, v>> ELSE d[i]]
    ELSE Append(d, <<k, v>>)

IsNotKey(item, k) == item[1] # k

\* d.pop(k)
Pop(d, k) == SelectSeq(d, LAMBDA item : IsNotKey(item, k))

SeqToSet(s) == {s[i] : i \in DOMAIN s}

\* the number of places of s that hold x
Count(s, x) == Cardinality({i \in DOMAIN s : s[i] = x})

Min(a, b) == IF a <= b THEN a ELSE b

Max(a, b) == IF a >= b THEN a ELSE b

\* every order in which the elements of S can be listed
Orders(S) ==
    {s \in [1..Cardinality(S) -> S] : \A i, j \in 1..Cardinality(S) : i # j => s[i] # s[j]}

-----------------------------------------------------------------------------
(* The directory, src/cli_processor.py *)

\* the most files the directory of a whole run holds
MaxFiles == 3

\* the most files the directory holds when only stages 1 and 2 run
MaxScanFiles == 3

Prefixes == {"a", "b", "c", "d"}

\* the prefixes of the files a directory listing is drawn from
ListedPrefixes == {"a", "b", "c"}

raw_extensions ==
    {"nef", "cr2", "cr3", "arw", "raf", "orf", "rw2", "pef", "dng", "3fr", "iiq"}

jpg_extensions == {"jpg", "jpeg"}

\* the file names a directory is drawn from: <<prefix, ext>> is prefix.ext
FileNames == (ListedPrefixes \X {"nef", "jpg"}) \cup {<<"a", "jpeg">>}

\* the file names the directory of a whole run is drawn from
RunFileNames == {f \in FileNames : f[1] \in {"a", "b"}}

RawNames == {f \in Prefixes \X {"nef", "jpg"} : f[2] \in raw_extensions}

\* RATING_FOLDER_NAMES: the ratings that have a folder (the key stands for the name)
RATING_FOLDER_NAMES == {1, 2, 3}

NoFolder == [exists |-> FALSE, files |-> {}]

\* a file in a rating folder: its name and whose bytes it holds, "prior" for a
\* file that was there before the run, "moved" for one moved from the root
FolderFile(name, content) == [name |-> name, content |-> content]

FolderHas(f, r, name) == \E x \in f[r].files : x.name = name

\* os.path.splitext on a name of the directory
splitext(filename) == filename

\* key + ".jpg", the preview raw_to_jpeg writes beside the raw file
PreviewOf(key) == <<key, "jpg">>

-----------------------------------------------------------------------------
(* Stage 1: _scan_files *)

RECURSIVE ScanLoop(_, _, _, _)
ScanLoop(listing, raw, jpg, tbr) ==
    IF listing = <<>>
    THEN [raw_dict |-> raw, jpg_dict |-> jpg, files_tbr |-> tbr]
    ELSE LET filename == Head(listing)
             file_prefix == splitext(filename)[1]
             file_ext == splitext(filename)[2]
             raw1 == IF file_ext \in raw_extensions THEN Put(raw, file_prefix, file_ext)
                     ELSE raw
             isJpg == file_ext \in jpg_extensions
         IN  ScanLoop(Tail(listing), raw1,
                      IF isJpg THEN Put(jpg, file_prefix, file_ext) ELSE jpg,
                      IF isJpg THEN Append(tbr, filename) ELSE tbr)

\* _scan_files over os.listdir, which lists the directory in any order
_scan_files(listing) == ScanLoop(listing, EmptyDict, EmptyDict, <<>>)

-----------------------------------------------------------------------------
(* Stage 2: _identify_raws_to_convert *)

RECURSIVE IdentifyLoop(_, _, _, _)
IdentifyLoop(items, jpg, todo, popped) ==
    IF items = <<>>
    THEN [jpg_dict |-> jpg, tasks |-> todo, pops |-> popped]
    ELSE LET key == Head(items)[1]
         IN  IF Has(jpg, key)
             THEN IdentifyLoop(Tail(items), Pop(jpg, key), todo,
                               [popped EXCEPT ![key] = @ + 1])
             ELSE IdentifyLoop(Tail(items), jpg, Append(todo, key), popped)

\* (mutant) every raw file becomes a task, whether it has a preview or not
_identify_every_raw(raw, jpg) ==
    [jpg_dict |-> jpg, tasks |-> [i \in DOMAIN raw |-> raw[i][1]],
     pops |-> [p \in Prefixes |-> 0]]

_identify_raws_to_convert(raw, jpg) ==
    IdentifyLoop(raw, jpg, <<>>, [p \in Prefixes |-> 0])

-----------------------------------------------------------------------------
(* CLIProcessor: construction *)

\* ui_settings default: [ai_confidence, sharpness_threshold, nima_threshold, ...]
UiSharpnessThreshold == 7500
UiNimaThreshold == 48

\* picked_top_percentage of the advanced config
PickedPercentages == {25}

ConfigChoices ==
    { [min_confidence |-> DefaultMinConfidence, min_sharpness |-> DefaultMinSharpness,
       min_nima |-> DefaultMinNima, max_brisque |-> DefaultMaxBrisque,
       picked_top_percentage |-> p] : p \in PickedPercentages }

\* self.stats of __init__ (the counters; the timing fields are not modelled)
InitStats ==
    [total |-> 0, star_3 |-> 0, picked |-> 0, star_2 |-> 0, star_1 |-> 0,
     star_0 |-> 0, no_bird |-> 0]

NoFolders == [r \in RATING_FOLDER_NAMES |-> NoFolder]

\* the processor's own state before process() has done anything
FreshStages ==
    /\ jpg_dict = EmptyDict
    /\ files_tbr = <<>>
    /\ tasks = <<>>
    /\ pops = [p \in Prefixes |-> 0]
    /\ taskState = <<>>
    /\ convCalls = [p \in Prefixes |-> 0]
    /\ idx = 0
    /\ cliCall = NoCall
    /\ topCall = NoCall
    /\ stats = InitStats
    /\ star_3_photos = <<>>
    /\ meta = [f \in RawNames |-> None]
    /\ files_to_move = <<>>
    /\ moved_count = 0
    /\ deleted_count = 0
    /\ invocation = 0
    /\ log = {}

FreshRun ==
    /\ raw_dict = EmptyDict
    /\ file_ratings = EmptyDict
    /\ FreshStages

\* no engine call is part of a run of the processor
EngineIdle ==
    /\ engine = RatingEngine(DefaultMinConfidence, DefaultMinSharpness, DefaultMinNima,
                             DefaultMaxBrisque, DefaultSharpnessThreshold,
                             DefaultNimaThreshold)
    /\ call = NoCall
    /\ prev = NoCall

\* folders a previous run left: none, or one folder holding another file under
\* the name of a raw file of the directory
PriorFolders(files) ==
    {NoFolders} \cup
    { [NoFolders EXCEPT ![r] = [exists |-> TRUE, files |-> {FolderFile(f, "prior")}]] :
        r \in {2}, f \in {x \in files : x[2] \in raw_extensions} }

\* CLIProcessor(dir_path) and the call of process(organize_files, cleanup_temp)
\* on a directory of at most n files with names among names
RunInit(names, n) ==
    /\ EngineIdle
    /\ pc = "scan"
    /\ root \in {S \in SUBSET names : Cardinality(S) <= n}
    /\ folders \in PriorFolders(root)
    /\ manifest = None
    /\ config \in ConfigChoices
    /\ organize_files \in BOOLEAN
    /\ cleanup_temp \in BOOLEAN
    /\ FreshRun

Init == RunInit(RunFileNames, MaxFiles)

-----------------------------------------------------------------------------
(* process(): stages 1 and 2 *)

\* stage 1
ScanFiles ==
    /\ pc = "scan"
    /\ \E listing \in Orders(root) :
         LET r == _scan_files(listing)
         IN  /\ raw_dict' = r.raw_dict
             /\ jpg_dict' = r.jpg_dict
             /\ files_tbr' = r.files_tbr
    /\ pc' = "identify"
    /\ UNCHANGED <<engineVars, fsVars, config, organize_files, cleanup_temp, tasks, pops,
                   taskState, convCalls, idx, callVars, stats, file_ratings, star_3_photos,
                   meta, files_to_move, moved_count, deleted_count, invocation, log>>

\* min(4, multiprocessing.cpu_count())
PoolLimit == 4

\* multiprocessing.cpu_count() of the machine
CpuCount == 2

max_workers == Min(PoolLimit, CpuCount)

\* stage 2: _identify_raws_to_convert, then _convert_raws submits every task to
\* the pool, or the stage is skipped when there is nothing to convert
IdentifyRaws ==
    /\ pc = "identify"
    /\ LET r == _identify_raws_to_convert(raw_dict, jpg_dict)
       IN  /\ jpg_dict' = r.jpg_dict
           /\ tasks' = r.tasks
           /\ pops' = r.pops
           /\ taskState' = [i \in DOMAIN r.tasks |-> "queued"]
           /\ pc' = IF r.tasks # <<>> THEN "convert" ELSE "rate"
    /\ idx' = 1
    /\ UNCHANGED <<engineVars, fsVars, config, organize_files, cleanup_temp, raw_dict,
                   files_tbr, convCalls, callVars, stats, file_ratings, star_3_photos,
                   meta, files_to_move, moved_count, deleted_count, invocation, log>>

Running == {i \in DOMAIN taskState : taskState[i] = "running"}

\* a pool thread takes the oldest queued task
WorkerStart(i) ==
    /\ pc = "convert"
    /\ taskState[i] = "queued"
    /\ \A j \in DOMAIN taskState : j < i => taskState[j] # "queued"
    /\ Cardinality(Running) < max_workers
    /\ taskState' = [taskState EXCEPT ![i] = "running"]
    /\ UNCHANGED <<engineVars, fsVars, pc, config, organize_files, cleanup_temp, raw_dict,
                   jpg_dict, files_tbr, tasks, pops, convCalls, idx, callVars, stats,
                   file_ratings, star_3_photos, meta, files_to_move, moved_count,
                   deleted_count, invocation, log>>

\* what convert_single returns for its one call of raw_to_jpeg
convert_single(key, converted) == <<key, converted>>

\* convert_single: raw_to_jpeg writes the preview beside the raw file, or raises
WorkerFinish(i) ==
    /\ pc = "convert"
    /\ taskState[i] = "running"
    /\ \E converted \in BOOLEAN :
         LET r == convert_single(tasks[i], converted)
         IN  /\ taskState' = [taskState EXCEPT ![i] = IF r[2] THEN "ok" ELSE "fail"]
             /\ root' = IF converted THEN root \cup {PreviewOf(tasks[i])} ELSE root
    /\ convCalls' = [convCalls EXCEPT ![tasks[i]] = @ + 1]
    /\ UNCHANGED <<engineVars, folders, manifest, pc, config, organize_files,
                   cleanup_temp, raw_dict, jpg_dict, files_tbr, tasks, pops, idx, callVars,
                   stats, file_ratings, star_3_photos, meta, files_to_move, moved_count,
                   deleted_count, invocation, log>>

\* (mutant) the preview name is appended whatever the task returned
CollectResultAlways(tbr, key, success) == Append(tbr, PreviewOf(key))

\* (mutant) the success test is inverted
CollectResultInverted(tbr, key, success) ==
    IF success THEN tbr ELSE Append(tbr, PreviewOf(key))

\* the review list after as_completed hands over one finished future
CollectResult(tbr, key, success) == IF success THEN Append(tbr, PreviewOf(key)) ELSE tbr

\* the main thread's as_completed loop takes one finished future; after the
\* last one the pool is closed and stage 3 starts
Collect(i) ==
    /\ pc = "convert"
    /\ taskState[i] \in {"ok", "fail"}
    /\ files_tbr' = CollectResult(files_tbr, tasks[i], taskState[i] = "ok")
    /\ log' = IF taskState[i] = "ok" THEN log ELSE log \cup {<<"convert_failed", tasks[i]>>}
    /\ taskState' = [taskState EXCEPT ![i] = IF @ = "ok" THEN "taken_ok" ELSE "taken_fail"]
    /\ pc' = IF \A j \in DOMAIN taskState :
                    j # i => taskState[j] \in {"taken_ok", "taken_fail"}
             THEN "rate" ELSE "convert"
    /\ UNCHANGED <<engineVars, fsVars, config, organize_files, cleanup_temp, raw_dict,
                   jpg_dict, tasks, pops, convCalls, idx, callVars, stats, file_ratings,
                   star_3_photos, meta, files_to_move, moved_count, deleted_count, invocation>>

ConvertRaws == \E i \in DOMAIN taskState : WorkerStart(i) \/ WorkerFinish(i) \/ Collect(i)

-----------------------------------------------------------------------------
(* Stage 3: _process_images *)

\* CLIProcessor._calculate_rating
_calculate_rating(cfg, detected, selected, confidence, sharpness, nima, brisque) ==
    IF ~detected
    THEN RatingResult(-1, -1, PlainReason("no_bird"))
    ELSE IF selected
    THEN RatingResult(3, 0, PlainReason("selected"))
    ELSE IF confidence < cfg.min_confidence
    THEN RatingResult(0, 0, Reason("confidence_low", confidence, cfg.min_confidence))
    ELSE IF PresentAbove(brisque, cfg.max_brisque)
    THEN RatingResult(0, 0, Reason("brisque_high", Val(brisque), cfg.max_brisque))
    ELSE IF PresentBelow(nima, cfg.min_nima)
    THEN RatingResult(0, 0, Reason("nima_low", Val(nima), cfg.min_nima))
    ELSE IF sharpness < cfg.min_sharpness
    THEN RatingResult(0, 0, Reason("sharpness_low", sharpness, cfg.min_sharpness))
    ELSE IF sharpness >= UiSharpnessThreshold \/ PresentAtLeast(nima, UiNimaThreshold)
    THEN RatingResult(2, 0, PlainReason("good"))
    ELSE RatingResult(1, 0, PlainReason("ordinary"))

\* (mutant) a rating of 1 has no bucket
_update_stats_without_star_1(st, rating) == IF rating = 1 THEN [st EXCEPT !.total = @ + 1] ELSE IF rating = 3 THEN [st EXCEPT !.total = @ + 1, !.star_3 = @ + 1] ELSE IF rating = 2 THEN [st EXCEPT !.total = @ + 1, !.star_2 = @ + 1] ELSE IF rating = 0 THEN [st EXCEPT !.total = @ + 1, !.star_0 = @ + 1] ELSE [st EXCEPT !.total = @ + 1, !.no_bird = @ + 1]

\* CLIProcessor._update_stats
_update_stats(st, rating) ==
    LET st1 == [st EXCEPT !.total = @ + 1]
    IN  IF rating = 3 THEN [st1 EXCEPT !.star_3 = @ + 1]
        ELSE IF rating = 2 THEN [st1 EXCEPT !.star_2 = @ + 1]
        ELSE IF rating = 1 THEN [st1 EXCEPT !.star_1 = @ + 1]
        ELSE IF rating = 0 THEN [st1 EXCEPT !.star_0 = @ + 1]
        ELSE [st1 EXCEPT !.no_bird = @ + 1]

\* what detect_and_draw_birds returns for a photo of a run
Detections ==
    [detected : BOOLEAN, selected : BOOLEAN, confidence : {30, 80},
     sharpness : {7000, 8000}, nima : {None, Some(40)}, brisque : {Some(20)}]

\* the metadata batch_set_metadata writes to one raw file
MetaRecord(rating, pick) == [rating |-> rating, pick |-> pick]

Candidate(file, nima, sharpness) == [file |-> file, nima |-> nima, sharpness |-> sharpness]

\* the rating written to EXIF: rating_value if rating_value >= 0 else 0
ExifRating(rating_value) == IF rating_value >= 0 THEN rating_value ELSE 0

\* (mutant) a photo whose detection failed is counted as a photo without a bird
RatePhotoCountingFailures ==
    /\ pc = "rate"
    /\ idx <= Len(files_tbr)
    /\ LET filename == files_tbr[idx]
           file_prefix == splitext(filename)[1]
       IN  \/ \* detect_and_draw_birds returned None or raised: the photo is skipped
              /\ log' = log \cup {<<"detect_failed", filename>>}
              /\ stats' = _update_stats(stats, -1)
              /\ UNCHANGED <<file_ratings, star_3_photos, meta>>
           \/ \E d \in Detections :
                LET r == _calculate_rating(config, d.detected, d.selected, d.confidence,
                                           d.sharpness, d.nima, d.brisque)
                    hasRaw == Has(raw_dict, file_prefix)
                    raw_file == <<file_prefix, Get(raw_dict, file_prefix)>>
                    written == hasRaw /\ raw_file \in root
                IN  /\ stats' = _update_stats(stats, r.rating)
                    /\ meta' = IF written
                               THEN [meta EXCEPT ![raw_file] =
                                         Some(MetaRecord(ExifRating(r.rating), r.pick))]
                               ELSE meta
                    /\ star_3_photos' =
                           IF written /\ r.rating = 3 /\ ~IsNone(d.nima)
                           THEN Append(star_3_photos,
                                       Candidate(raw_file, Val(d.nima), d.sharpness))
                           ELSE star_3_photos
                    /\ file_ratings' = IF written THEN Put(file_ratings, file_prefix, r.rating)
                                       ELSE file_ratings
                    /\ UNCHANGED log
    /\ idx' = idx + 1
    /\ UNCHANGED <<engineVars, fsVars, pc, config, organize_files, cleanup_temp, raw_dict,
                   jpg_dict, files_tbr, tasks, pops, taskState, convCalls, callVars,
                   files_to_move, moved_count, deleted_count, invocation>>

\* one turn of the loop over files_tbr: detection, rating, statistics, EXIF
RatePhoto ==
    /\ pc = "rate"
    /\ idx <= Len(files_tbr)
    /\ LET filename == files_tbr[idx]
           file_prefix == splitext(filename)[1]
       IN  \/ \* detect_and_draw_birds returned None or raised: the photo is skipped
              /\ log' = log \cup {<<"detect_failed", filename>>}
              /\ UNCHANGED <<stats, file_ratings, star_3_photos, meta>>
           \/ \E d \in Detections :
                LET r == _calculate_rating(config, d.detected, d.selected, d.confidence,
                                           d.sharpness, d.nima, d.brisque)
                    hasRaw == Has(raw_dict, file_prefix)
                    raw_file == <<file_prefix, Get(raw_dict, file_prefix)>>
                    written == hasRaw /\ raw_file \in root
                IN  /\ stats' = _update_stats(stats, r.rating)
                    /\ meta' = IF written
                               THEN [meta EXCEPT ![raw_file] =
                                         Some(MetaRecord(ExifRating(r.rating), r.pick))]
                               ELSE meta
                    /\ star_3_photos' =
                           IF written /\ r.rating = 3 /\ ~IsNone(d.nima)
                           THEN Append(star_3_photos,
                                       Candidate(raw_file, Val(d.nima), d.sharpness))
                           ELSE star_3_photos
                    /\ file_ratings' = IF written THEN Put(file_ratings, file_prefix, r.rating)
                                       ELSE file_ratings
                    /\ UNCHANGED log
    /\ idx' = idx + 1
    /\ UNCHANGED <<engineVars, fsVars, pc, config, organize_files, cleanup_temp, raw_dict,
                   jpg_dict, files_tbr, tasks, pops, taskState, convCalls, callVars,
                   files_to_move, moved_count, deleted_count, invocation>>

-----------------------------------------------------------------------------
(* Stage 4: _calculate_picked_flags *)

\* x goes after every element whose key is at least its own: sorted(...,
\* reverse=True) is stable, equal keys keep the order of the list
RECURSIVE InsertDesc(_, _, _)
InsertDesc(sorted, x, key) ==
    IF sorted = <<>> THEN <<x>>
    ELSE IF Head(sorted)[key] >= x[key]
    THEN <<Head(sorted)>> \o InsertDesc(Tail(sorted), x, key)
    ELSE <<x>> \o sorted

\* sorted(photos, key=lambda x: x[key], reverse=True)
RECURSIVE SortedDesc(_, _)
SortedDesc(photos, key) ==
    IF photos = <<>> THEN <<>>
    ELSE InsertDesc(SortedDesc(SubSeq(photos, 1, Len(photos) - 1), key),
                    photos[Len(photos)], key)

\* A positive double is [mant, exp]: mant its significand as a sequence of at
\* most MantissaBits bits, the first one 1, and the value is mant * 2^exp.
MantissaBits == 53

Float(mant, exp) == [mant |-> mant, exp |-> exp]

\* a function on 1..n as the sequence of its values
Listed(f) == SubSeq(f, 1, Len(f))

\* the bits of a natural number, most significant first
RECURSIVE BinaryOf(_)
BinaryOf(n) == IF n = 0 THEN <<>> ELSE BinaryOf(n \div 2) \o <<n % 2>>

RECURSIVE Pow2(_)
Pow2(k) == IF k = 0 THEN 1 ELSE 2 * Pow2(k - 1)

\* the number the bits lo..hi of a sequence spell, at most 30 bits
RECURSIVE BitsValue(_, _, _)
BitsValue(bits, lo, hi) ==
    IF lo > hi THEN 0
    ELSE IF lo = hi THEN bits[lo]
    ELSE LET mid == (lo + hi) \div 2
         IN  BitsValue(bits, lo, mid) * Pow2(hi - mid) + BitsValue(bits, mid + 1, hi)

\* bits + 1; a carry out of the first bit makes the sequence one bit longer
Increment(bits) ==
    IF \A i \in DOMAIN bits : bits[i] = 1
    THEN <<1>> \o Listed([i \in DOMAIN bits |-> 0])
    ELSE LET last == CHOOSE i \in DOMAIN bits :
                         bits[i] = 0 /\ \A k \in (i + 1)..Len(bits) : bits[k] = 1
         IN  Listed([i \in DOMAIN bits |->
                        IF i < last THEN bits[i] ELSE IF i = last THEN 1 ELSE 0])

\* round-to-nearest, ties to even, of a value whose leading bits are kept and
\* whose discarded part is above, at or below half a unit of the last kept bit
RoundedUp(kept, exp, above_half, exactly_half) ==
    IF above_half \/ (exactly_half /\ kept[Len(kept)] = 1)
    THEN LET up == Increment(kept)
         IN  IF Len(up) > Len(kept)
             THEN Float(SubSeq(up, 1, Len(kept)), exp + 1)
             ELSE Float(up, exp)
    ELSE Float(kept, exp)

\* the exact value bits * 2^exp rounded to a double
RoundBits(bits, exp) ==
    IF Len(bits) <= MantissaBits THEN Float(bits, exp)
    ELSE LET kept == SubSeq(bits, 1, MantissaBits)
             dropped == SubSeq(bits, MantissaBits + 1, Len(bits))
             rest_zero == \A i \in 2..Len(dropped) : dropped[i] = 0
         IN  RoundedUp(kept, exp + Len(dropped),
                       dropped[1] = 1 /\ ~rest_zero, dropped[1] = 1 /\ rest_zero)

\* the number of doublings that bring a up to b, for 1 <= a <= b
RECURSIVE Doublings(_, _)
Doublings(a, b) == IF a >= b THEN 0 ELSE 1 + Doublings(2 * a, b)

\* 2^k modulo m, by repeated squaring
RECURSIVE Pow2Mod(_, _)
Pow2Mod(k, m) ==
    IF k = 0 THEN 1 % m
    ELSE IF k % 2 = 0
    THEN LET half == Pow2Mod(k \div 2, m) IN (half * half) % m
    ELSE (2 * Pow2Mod(k - 1, m)) % m

\* long division of rem / den, rem < den: the remainder after k bits of the
\* quotient, and the k-th bit
DivRem(rem, den, k) == (rem * Pow2Mod(k, den)) % den

DivBit(rem, den, k) == (2 * DivRem(rem, den, k - 1)) \div den

\* float(a) / float(b) for integers 1 <= a <= b: the quotient, correctly rounded
FloatDiv(a, b) ==
    LET s == Doublings(a, b)
        first == a * Pow2(s) - b
        mant == Listed([i \in 1..MantissaBits |->
                           IF i = 1 THEN 1 ELSE DivBit(first, b, i - 1)])
        rem == DivRem(first, b, MantissaBits - 1)
    IN  RoundedUp(mant, 0 - s - (MantissaBits - 1), 2 * rem > b, 2 * rem = b)

\* a significand is multiplied limb by limb, LimbBits bits at a time
LimbBits == 14

\* the exact product n * bits for 1 <= n < 2^17, as a bit sequence
MulBits(bits, n) ==
    LET pad == (LimbBits - (Len(bits) % LimbBits)) % LimbBits
        padded == Listed([i \in 1..(Len(bits) + pad) |->
                            IF i <= pad THEN 0 ELSE bits[i - pad]])
        limbs == Len(padded) \div LimbBits
        radix == Pow2(LimbBits)
        limb == Listed([j \in 1..limbs |->
                          BitsValue(padded, LimbBits * (j - 1) + 1, LimbBits * j)])
        carry_into[j \in 0..limbs] ==
            IF j = limbs THEN 0 ELSE (n * limb[j + 1] + carry_into[j + 1]) \div radix
        out == Listed([j \in 1..limbs |-> (n * limb[j] + carry_into[j]) % radix])
        low == Listed([i \in 1..Len(padded) |->
                          (out[((i - 1) \div LimbBits) + 1]
                               \div Pow2(LimbBits - 1 - ((i - 1) % LimbBits))) % 2])
        all == BinaryOf(carry_into[0]) \o low
        lead == CHOOSE i \in DOMAIN all : all[i] = 1 /\ \A k \in 1..(i - 1) : all[k] = 0
    IN  SubSeq(all, lead, Len(all))

\* float(n) * x for an integer n >= 1: the exact product, rounded
FloatMul(n, x) == RoundBits(MulBits(x.mant, n), x.exp)

\* int(x) of a double below 2^30: truncation toward zero
FloatInt(x) ==
    IF x.exp >= 0 THEN BitsValue(x.mant, 1, Len(x.mant)) * Pow2(x.exp)
    ELSE BitsValue(x.mant, 1, Len(x.mant) + x.exp)

\* the values of picked_top_percentage: the slider runs from 10 to 50 in steps of 5
SliderPercentages == {10, 15, 20, 25, 30, 35, 40, 45, 50}

\* the largest cohort of candidates
MaxCohortSize == 180

\* top_percent = self.config.picked_top_percentage / 100.0
TopPercent(percentage) == FloatDiv(percentage, 100)

\* max(1, int(len(star_3_photos) * top_percent)), computed in doubles as the
\* code computes it
FloatTopCount(n, top_percent) == Max(1, FloatInt(FloatMul(n, top_percent)))

\* top_count for every value of the slider and every cohort size, computed once
TopCounts ==
    Listed([p \in 1..50 |->
               IF p \in SliderPercentages
               THEN LET top_percent == TopPercent(p)
                    IN  Listed([n \in 1..MaxCohortSize |-> FloatTopCount(n, top_percent)])
               ELSE <<>>])

\* top_count of _calculate_picked_flags for a cohort of n >= 1 candidates
TopCount(n, percentage) == TopCounts[percentage][n]

\* (mutant) the slice takes the end of the ranking
BottomFiles(sorted, top_count) == {sorted[i].file : i \in (Len(sorted) - Min(top_count, Len(sorted)) + 1)..Len(sorted)}

\* set([photo['file'] for photo in sorted_list[:top_count]])
TopFiles(sorted, top_count) == {sorted[i].file : i \in 1..Min(top_count, Len(sorted))}

\* picked_files of _calculate_picked_flags
PickedFiles(photos, percentage) ==
    IF Len(photos) = 0 THEN {}
    ELSE LET top_count == TopCount(Len(photos), percentage)
             nima_top_files == TopFiles(SortedDesc(photos, "nima"), top_count)
             sharpness_top_files == TopFiles(SortedDesc(photos, "sharpness"), top_count)
         IN  nima_top_files \cap sharpness_top_files

\* lines 382-405: the batch write of the picked files and the statistics;
\* batch_set_metadata may fail on any of the files
PickedWrite(picked_files) ==
    IF picked_files # {}
    THEN \E failed \in SUBSET picked_files :
           /\ meta' = [f \in RawNames |->
                          IF f \in picked_files \ failed
                          THEN Some(MetaRecord(3, 1)) ELSE meta[f]]
           /\ log' = IF failed = {} THEN log
                     ELSE log \cup {<<"pick_failed", Cardinality(failed)>>}
           /\ stats' = [stats EXCEPT
                           !.picked = Cardinality(picked_files) - Cardinality(failed)]
    ELSE /\ stats' = [stats EXCEPT !.picked = 0]
         /\ UNCHANGED <<meta, log>>

\* (mutant) stage 4 does not wait for the end of the rating loop
PickedFlagsEarly ==
    /\ pc = "rate"
    /\ LET picked_files == PickedFiles(star_3_photos, config.picked_top_percentage)
           percentage == config.picked_top_percentage
           n == Len(star_3_photos)
       IN  IF n = 0
           THEN UNCHANGED <<topCall, stats, meta, log>>
           ELSE /\ topCall' = CallRecord(percentage, n, TopCount(n, percentage))
                /\ PickedWrite(picked_files)
    /\ pc' = "organize"
    /\ UNCHANGED <<engineVars, fsVars, config, organize_files, cleanup_temp, raw_dict, jpg_dict, files_tbr, tasks, pops, taskState, convCalls, idx, cliCall, file_ratings, star_3_photos, files_to_move, moved_count, deleted_count, invocation>>

\* stage 4 as one step
PickedFlags ==
    /\ pc = "rate"
    /\ idx > Len(files_tbr)
    /\ LET picked_files == PickedFiles(star_3_photos, config.picked_top_percentage)
           percentage == config.picked_top_percentage
           n == Len(star_3_photos)
       IN  IF n = 0
           THEN UNCHANGED <<topCall, stats, meta, log>>
           ELSE /\ topCall' = CallRecord(percentage, n, TopCount(n, percentage))
                /\ PickedWrite(picked_files)
    /\ pc' = "organize"
    /\ UNCHANGED <<engineVars, fsVars, config, organize_files, cleanup_temp, raw_dict,
                   jpg_dict, files_tbr, tasks, pops, taskState, convCalls, idx, cliCall,
                   file_ratings, star_3_photos, files_to_move, moved_count, deleted_count,
                   invocation>>

-----------------------------------------------------------------------------
(* Stage 5: _move_files_to_rating_folders *)

MoveRecord(filename, rating) == [filename |-> filename, rating |-> rating, folder |-> rating]

\* (mutant) the filter does not look at the rating
SelectedWhateverRating(prefix, rating, raw, files) == Has(raw, prefix) /\ <<prefix, Get(raw, prefix)>> \in files

\* the filter of the loop over file_ratings.items()
SelectedForMove(prefix, rating, raw, files) ==
    /\ rating \in {1, 2, 3}
    /\ Has(raw, prefix)
    /\ <<prefix, Get(raw, prefix)>> \in files

RECURSIVE SelectLoop(_, _, _)
SelectLoop(items, raw, files) ==
    IF items = <<>> THEN <<>>
    ELSE LET prefix == Head(items)[1]
             rating == Head(items)[2]
             rest == SelectLoop(Tail(items), raw, files)
         IN  IF SelectedForMove(prefix, rating, raw, files)
             THEN <<MoveRecord(<<prefix, Get(raw, prefix)>>, rating)>> \o rest
             ELSE rest

\* the folders after "create folders": os.makedirs for every rating in use
\* whose folder does not exist
MakeFolders(f, to_move) ==
    LET ratings_in_use == {to_move[i].rating : i \in DOMAIN to_move}
    IN  [r \in RATING_FOLDER_NAMES |->
            IF r \in ratings_in_use /\ ~f[r].exists
            THEN [exists |-> TRUE, files |-> {}] ELSE f[r]]

\* the start of the move step: the selection, the early return when nothing
\* is selected, the creation of the folders
MoveSelect ==
    /\ pc = "organize"
    /\ organize_files
    /\ LET to_move == SelectLoop(file_ratings, raw_dict, root)
       IN  /\ files_to_move' = to_move
           /\ folders' = MakeFolders(folders, to_move)
           /\ pc' = IF to_move = <<>> THEN "moved" ELSE "move"
    /\ moved_count' = 0
    /\ idx' = 1
    /\ invocation' = invocation + 1
    /\ UNCHANGED <<engineVars, root, manifest, config, organize_files, cleanup_temp,
                   raw_dict, jpg_dict, files_tbr, tasks, pops, taskState, convCalls,
                   callVars, stats, file_ratings, star_3_photos, meta, deleted_count, log>>

\* process(organize_files=False) skips stage 5
SkipOrganize ==
    /\ pc = "organize"
    /\ ~organize_files
    /\ pc' = "moved"
    /\ UNCHANGED <<engineVars, fsVars, config, organize_files, cleanup_temp, raw_dict,
                   jpg_dict, files_tbr, tasks, pops, taskState, convCalls, idx, callVars,
                   stats, file_ratings, star_3_photos, meta, files_to_move, moved_count,
                   deleted_count, invocation, log>>

\* (mutant) the destination is not looked at before the move
SkipsMoveNever(f, file_info) == FALSE

\* whether the loop body leaves the file alone: os.path.exists(dst_path)
SkipsMove(f, file_info) == FolderHas(f, file_info.folder, file_info.filename)

\* (mutant) the file is copied, not moved
MovedRootKeeping(files, file_info) == files

\* shutil.move(src_path, dst_path) done: the file leaves the root for its folder
MovedRoot(files, file_info) == files \ {file_info.filename}

MovedFolders(f, file_info) ==
    [f EXCEPT ![file_info.folder].files =
        {x \in @ : x.name # file_info.filename}
            \cup {FolderFile(file_info.filename, "moved")}]

\* (mutant) a failed move ends the loop
MoveOneStoppingAtFailure ==
    /\ pc = "move"
    /\ idx <= Len(files_to_move)
    /\ LET file_info == files_to_move[idx]
       IN  IF SkipsMove(folders, file_info)
           THEN UNCHANGED <<root, folders, moved_count, log>>
           ELSE \/ /\ file_info.filename \in root
                   /\ root' = MovedRoot(root, file_info)
                   /\ folders' = MovedFolders(folders, file_info)
                   /\ moved_count' = moved_count + 1
                   /\ UNCHANGED log
                \/ /\ log' = log \cup {<<"move_failed", file_info.filename>>}
                   /\ UNCHANGED <<root, folders, moved_count>>
    /\ idx' = IF log' # log THEN Len(files_to_move) + 1 ELSE idx + 1
    /\ UNCHANGED <<engineVars, manifest, pc, config, organize_files, cleanup_temp,
                   raw_dict, jpg_dict, files_tbr, tasks, pops, taskState, convCalls,
                   callVars, stats, file_ratings, star_3_photos, meta, files_to_move,
                   deleted_count, invocation>>

\* one turn of the loop over files_to_move; shutil.move may raise
MoveOne ==
    /\ pc = "move"
    /\ idx <= Len(files_to_move)
    /\ LET file_info == files_to_move[idx]
       IN  IF SkipsMove(folders, file_info)
           THEN UNCHANGED <<root, folders, moved_count, log>>
           ELSE \/ /\ file_info.filename \in root
                   /\ root' = MovedRoot(root, file_info)
                   /\ folders' = MovedFolders(folders, file_info)
                   /\ moved_count' = moved_count + 1
                   /\ UNCHANGED log
                \/ /\ log' = log \cup {<<"move_failed", file_info.filename>>}
                   /\ UNCHANGED <<root, folders, moved_count>>
    /\ idx' = idx + 1
    /\ UNCHANGED <<engineVars, manifest, pc, config, organize_files, cleanup_temp,
                   raw_dict, jpg_dict, files_tbr, tasks, pops, taskState, convCalls,
                   callVars, stats, file_ratings, star_3_photos, meta, files_to_move,
                   deleted_count, invocation>>

\* the manifest document: files, stats.total_moved and the creation time;
\* "created" is the number of the move step that wrote it
Manifest(to_move, moved) ==
    [files |-> to_move, total_moved |-> moved, created |-> invocation]

\* (mutant) a failed manifest write takes the moved files back to the root
WriteManifestUndoingMoves ==
    /\ pc = "move"
    /\ idx > Len(files_to_move)
    /\ \/ /\ manifest' = Some(Manifest(files_to_move, moved_count))
          /\ UNCHANGED <<log, root, folders>>
       \/ /\ log' = log \cup {<<"manifest_failed", invocation>>}
          /\ root' = root \cup {x.name : x \in {y \in UNION {folders[r].files : r \in RATING_FOLDER_NAMES} : y.content = "moved"}}
          /\ folders' = [r \in RATING_FOLDER_NAMES |-> [folders[r] EXCEPT !.files = {x \in @ : x.content # "moved"}]]
          /\ UNCHANGED manifest
    /\ pc' = "moved"
    /\ UNCHANGED <<engineVars, config, organize_files, cleanup_temp, raw_dict, jpg_dict, files_tbr, tasks, pops, taskState, convCalls, idx, callVars, stats, file_ratings, star_3_photos, meta, files_to_move, moved_count, deleted_count, invocation>>

\* after the loop: json.dump of the manifest, which may raise
WriteManifest ==
    /\ pc = "move"
    /\ idx > Len(files_to_move)
    /\ \/ /\ manifest' = Some(Manifest(files_to_move, moved_count))
          /\ UNCHANGED log
       \/ /\ log' = log \cup {<<"manifest_failed", invocation>>}
          /\ UNCHANGED manifest
    /\ pc' = "moved"
    /\ UNCHANGED <<engineVars, root, folders, config, organize_files, cleanup_temp,
                   raw_dict, jpg_dict, files_tbr, tasks, pops, taskState, convCalls, idx,
                   callVars, stats, file_ratings, star_3_photos, meta, files_to_move,
                   moved_count, deleted_count, invocation>>

-----------------------------------------------------------------------------
(* Stage 6: _cleanup_temp_files, and the end of process() *)

\* (mutant) the filter does not look at the raw map
IsAnyPreview(filename, raw) == splitext(filename)[2] \in jpg_extensions

\* the filter of the loop over files_tbr
IsTempPreview(filename, raw) ==
    Has(raw, splitext(filename)[1]) /\ splitext(filename)[2] \in jpg_extensions

\* process(cleanup_temp=...): stage 6 starts, or the run ends without it
StartCleanup ==
    /\ pc = "moved"
    /\ pc' = IF cleanup_temp THEN "cleanup" ELSE "done"
    /\ idx' = 1
    /\ deleted_count' = 0
    /\ UNCHANGED <<engineVars, fsVars, config, organize_files, cleanup_temp, raw_dict,
                   jpg_dict, files_tbr, tasks, pops, taskState, convCalls, callVars, stats,
                   file_ratings, star_3_photos, meta, files_to_move, moved_count,
                   invocation, log>>

\* one turn of the loop over files_tbr; os.remove may raise
CleanupOne ==
    /\ pc = "cleanup"
    /\ idx <= Len(files_tbr)
    /\ LET filename == files_tbr[idx]
       IN  IF IsTempPreview(filename, raw_dict) /\ filename \in root
           THEN \/ /\ root' = root \ {filename}
                   /\ deleted_count' = deleted_count + 1
                   /\ UNCHANGED log
                \/ /\ log' = log \cup {<<"delete_failed", filename>>}
                   /\ UNCHANGED <<root, deleted_count>>
           ELSE UNCHANGED <<root, deleted_count, log>>
    /\ idx' = idx + 1
    /\ UNCHANGED <<engineVars, folders, manifest, pc, config, organize_files,
                   cleanup_temp, raw_dict, jpg_dict, files_tbr, tasks, pops, taskState,
                   convCalls, callVars, stats, file_ratings, star_3_photos, meta,
                   files_to_move, moved_count, invocation>>

\* the loop is over: the statistics are closed and the summary printed
FinishRun ==
    /\ pc = "cleanup"
    /\ idx > Len(files_tbr)
    /\ pc' = "done"
    /\ UNCHANGED <<engineVars, fsVars, config, organize_files, cleanup_temp, raw_dict,
                   jpg_dict, files_tbr, tasks, pops, taskState, convCalls, idx, callVars,
                   stats, file_ratings, star_3_photos, meta, files_to_move, moved_count,
                   deleted_count, invocation, log>>

-----------------------------------------------------------------------------
(* The specifications *)

\* a run of process() over a directory
Next ==
    \/ ScanFiles
    \/ IdentifyRaws
    \/ ConvertRaws
    \/ RatePhoto
    \/ PickedFlags
    \/ MoveSelect
    \/ SkipOrganize
    \/ MoveOne
    \/ WriteManifest
    \/ StartCleanup
    \/ CleanupOne
    \/ FinishRun

Spec == Init /\ [][Next]_vars

\* stages 1 and 2 alone: the scan, the pairing, the conversion pool
ConvertInit ==
    RunInit(FileNames, MaxScanFiles) /\ organize_files /\ cleanup_temp /\ folders = NoFolders

ConvertNext ==
    \/ ScanFiles
    \/ IdentifyRaws
    \/ ConvertRaws

SpecConvert == ConvertInit /\ [][ConvertNext]_vars

\* the move step alone, called MaxInvocations times with the same file_ratings
\* and raw_dict on whatever the directory holds

\* the most entries of file_ratings
MaxMoveFiles == 2

\* the number of calls of the move step
MaxInvocations == 2

\* a rated prefix has no raw_dict entry, or an entry whose file is missing
\* from the root, or an entry whose file is there
RawStates == {"no_entry", "missing", "present"}

\* folders found by the first call: none, or one folder, empty or holding
\* another file under the name of a rated raw file
PriorMoveFolders(names) ==
    {NoFolders} \cup
    { [NoFolders EXCEPT ![r] = [exists |-> TRUE, files |-> fs]] :
        r \in RATING_FOLDER_NAMES,
        fs \in {{}} \cup {{FolderFile(f, "prior")} : f \in names} }

\* the order of the rated prefixes in file_ratings is the order of the rating
\* loop: the prefixes in the order of the alphabet, or in the reverse order
PrefixOrder == <<"a", "b", "c", "d">>

Reverse(s) == [i \in DOMAIN s |-> s[Len(s) + 1 - i]]

RatedOrders(S) ==
    LET listed == SelectSeq(PrefixOrder, LAMBDA p : p \in S)
    IN  {listed, Reverse(listed)}

MoveInit ==
    /\ EngineIdle
    /\ FreshStages
    /\ pc = "organize"
    /\ organize_files = TRUE
    /\ cleanup_temp = FALSE
    /\ config \in ConfigChoices
    /\ manifest = None
    /\ \E S \in {T \in SUBSET ListedPrefixes : Cardinality(T) <= MaxMoveFiles} :
         \E order \in RatedOrders(S), rating \in [S -> Ratings], raw \in [S -> RawStates] :
            /\ file_ratings = [i \in DOMAIN order |-> <<order[i], rating[order[i]]>>]
            /\ raw_dict = [i \in 1..Cardinality({p \in S : raw[p] # "no_entry"}) |->
                               <<SelectSeq(order, LAMBDA p : raw[p] # "no_entry")[i], "nef">>]
            /\ root = {<<p, "nef">> : p \in {q \in S : raw[q] = "present"}}
            /\ folders \in PriorMoveFolders({<<p, "nef">> : p \in S})

\* the caller calls the move step again with the same arguments
InvokeAgain ==
    /\ pc = "moved"
    /\ invocation < MaxInvocations
    /\ pc' = "organize"
    /\ UNCHANGED <<engineVars, fsVars, config, organize_files, cleanup_temp, raw_dict,
                   jpg_dict, files_tbr, tasks, pops, taskState, convCalls, idx, callVars,
                   stats, file_ratings, star_3_photos, meta, files_to_move, moved_count,
                   deleted_count, invocation, log>>

MoveNext ==
    \/ MoveSelect
    \/ MoveOne
    \/ WriteManifest
    \/ InvokeAgain

SpecMove == MoveInit /\ [][MoveNext]_vars

\* calls of _calculate_rating on one processor
CliInputs ==
    [detected : BOOLEAN, selected : BOOLEAN, confidence : Confidences,
     sharpness : Sharpnesses, nima : Nimas, brisque : Brisques]

CliRatingInit ==
    /\ EngineIdle
    /\ FreshRun
    /\ pc = "idle"
    /\ root = {}
    /\ folders = NoFolders
    /\ manifest = None
    /\ organize_files = FALSE
    /\ cleanup_temp = FALSE
    /\ \E f \in FloorChoices, p \in PickedPercentages :
          config = [min_confidence |-> f.min_confidence, min_sharpness |-> f.min_sharpness,
                    min_nima |-> f.min_nima, max_brisque |-> f.max_brisque,
                    picked_top_percentage |-> p]

CalculateRating ==
    /\ pc = "idle"
    /\ \E d \in CliInputs :
         cliCall' = CallRecord(config, d,
                               _calculate_rating(config, d.detected, d.selected,
                                                 d.confidence, d.sharpness, d.nima,
                                                 d.brisque))
    /\ UNCHANGED <<engineVars, fsVars, pc, config, organize_files, cleanup_temp, raw_dict,
                   jpg_dict, files_tbr, tasks, pops, taskState, convCalls, idx, topCall,
                   stats, file_ratings, star_3_photos, meta, files_to_move, moved_count,
                   deleted_count, invocation, log>>

CliRatingNext == CalculateRating

SpecCliRating == CliRatingInit /\ [][CliRatingNext]_vars

\* calls of RatingEngine.calculate and update_thresholds on one engine
EngineCliIdle ==
    /\ pc = "idle"
    /\ root = {}
    /\ folders = NoFolders
    /\ manifest = None
    /\ config \in ConfigChoices
    /\ organize_files = FALSE
    /\ cleanup_temp = FALSE
    /\ FreshRun

EngineNext ==
    \/ Calculate /\ UNCHANGED cliVars
    \/ UpdateThresholds /\ UNCHANGED cliVars

EngineSpecInit == EngineInit /\ EngineCliIdle

SpecEngine == EngineSpecInit /\ [][EngineNext]_vars

\* top_count alone: lines 368-369 for a processor configured with any value of
\* the slider and a cohort of any size up to MaxCohortSize
TopCountInit ==
    /\ EngineIdle
    /\ FreshRun
    /\ pc = "idle"
    /\ root = {}
    /\ folders = NoFolders
    /\ manifest = None
    /\ organize_files = FALSE
    /\ cleanup_temp = FALSE
    /\ \E p \in SliderPercentages :
          config = [min_confidence |-> DefaultMinConfidence,
                    min_sharpness |-> DefaultMinSharpness, min_nima |-> DefaultMinNima,
                    max_brisque |-> DefaultMaxBrisque, picked_top_percentage |-> p]

ComputeTopCount ==
    /\ pc = "idle"
    /\ \E n \in 1..MaxCohortSize :
         topCall' = CallRecord(config.picked_top_percentage, n,
                               TopCount(n, config.picked_top_percentage))
    /\ UNCHANGED <<engineVars, fsVars, pc, config, organize_files, cleanup_temp, raw_dict,
                   jpg_dict, files_tbr, tasks, pops, taskState, convCalls, idx, cliCall,
                   stats, file_ratings, star_3_photos, meta, files_to_move, moved_count,
                   deleted_count, invocation, log>>

TopCountNext == ComputeTopCount

SpecTopCount == TopCountInit /\ [][TopCountNext]_vars

\* stage 4 alone: _calculate_picked_flags on the cohort a rating loop has
\* collected, every candidate a different raw file

\* the most candidates of the cohort
MaxCandidates == 4

CandidateNimas == {48, 50}

CandidateSharpnesses == {7500, 8000}

CandidateFiles == {f \in RawNames : f[1] \in Prefixes}

\* the cohorts of distinct files, in every order of accumulation
Cohorts ==
    UNION { { [i \in 1..Len(order) |->
                 Candidate(order[i], nima[order[i]], sharpness[order[i]])] :
              order \in Orders(S), nima \in [S -> CandidateNimas],
              sharpness \in [S -> CandidateSharpnesses] } :
            S \in {T \in SUBSET CandidateFiles : Cardinality(T) <= MaxCandidates} }

PickedPercentageChoices == {25, 50}

PickedInit ==
    /\ EngineIdle
    /\ pc = "rate"
    /\ folders = NoFolders
    /\ manifest = None
    /\ organize_files \in BOOLEAN
    /\ cleanup_temp = FALSE
    /\ \E p \in PickedPercentageChoices :
          config = [min_confidence |-> DefaultMinConfidence,
                    min_sharpness |-> DefaultMinSharpness, min_nima |-> DefaultMinNima,
                    max_brisque |-> DefaultMaxBrisque, picked_top_percentage |-> p]
    /\ \E photos \in Cohorts :
          /\ star_3_photos = photos
          /\ root = {photos[i].file : i \in DOMAIN photos}
          /\ raw_dict = [i \in DOMAIN photos |-> <<photos[i].file[1], photos[i].file[2]>>]
          /\ file_ratings = [i \in DOMAIN photos |-> <<photos[i].file[1], 3>>]
          /\ meta = [f \in RawNames |->
                        IF \E i \in DOMAIN photos : photos[i].file = f
                        THEN Some(MetaRecord(3, 0)) ELSE None]
          /\ stats = [InitStats EXCEPT !.total = Len(photos), !.star_3 = Len(photos)]
    /\ jpg_dict = EmptyDict
    /\ files_tbr = <<>>
    /\ tasks = <<>>
    /\ pops = [p \in Prefixes |-> 0]
    /\ taskState = <<>>
    /\ convCalls = [p \in Prefixes |-> 0]
    /\ idx = 1
    /\ cliCall = NoCall
    /\ topCall = NoCall
    /\ files_to_move = <<>>
    /\ moved_count = 0
    /\ deleted_count = 0
    /\ invocation = 0
    /\ log = {}

PickedNext == PickedFlags

SpecPicked == PickedInit /\ [][PickedNext]_vars

-----------------------------------------------------------------------------
(* The claims *)

\* a detected photo fails a floor check of thresholds th
FailsAnyFloor(th, in) ==
    \/ in.confidence < th.min_confidence
    \/ (in.brisque # None /\ in.brisque[1] > th.max_brisque)
    \/ (in.nima # None /\ in.nima[1] < th.min_nima)
    \/ in.sharpness < th.min_sharpness

\* C1: when the move step has been called a second time with the same ratings
\* and raw map, the second call has moved nothing and the manifest in the
\* directory reports total_moved = 0.  Stated for the runs in which no move and
\* no manifest write raised, and for the directories that have a manifest.
C1_SecondCallManifestZero ==
    (pc = "moved" /\ invocation = 2 /\ log = {}) =>
        /\ moved_count = 0
        /\ manifest # None => manifest[1].total_moved = 0

\* C2: when the destination folder already holds a file of the same name, the
\* turn of the move loop leaves the source in the root, leaves every folder as
\* it was, logs no failure, does not count the file, and goes on to the next.
C2_SkipStep ==
    (/\ pc = "move"
     /\ idx <= Len(files_to_move)
     /\ FolderHas(folders, files_to_move[idx].rating, files_to_move[idx].filename))
    => (/\ root' = root
        /\ folders' = folders
        /\ log' = log
        /\ moved_count' = moved_count
        /\ idx' = idx + 1
        /\ pc' = "move")

C2_ExistingDestinationSkipped == [][C2_SkipStep]_vars

\* a turn of the move loop has just skipped a file: it is still in the root and
\* the folder still holds the other file of that name
C2_Witness ==
    /\ pc = "move"
    /\ idx > 1
    /\ files_to_move[idx - 1].filename \in root
    /\ FolderFile(files_to_move[idx - 1].filename, "prior")
           \in folders[files_to_move[idx - 1].rating].files
    /\ moved_count = 0

\* C3: _identify_raws_to_convert pops every prefix that is in both maps from the
\* preview map exactly once and gives it no task; the tasks are exactly the raw
\* prefixes without a preview entry, one each; no other preview entry is touched.
C3_IdentifyStep ==
    (pc = "identify") =>
        LET both == DictKeys(raw_dict) \cap DictKeys(jpg_dict)
            rawOnly == DictKeys(raw_dict) \ DictKeys(jpg_dict)
        IN  /\ \A p \in both :
                  pops'[p] = 1 /\ ~Has(jpg_dict', p) /\ Count(tasks', p) = 0
            /\ \A p \in rawOnly : pops'[p] = 0 /\ Count(tasks', p) = 1
            /\ \A p \in Prefixes \ DictKeys(raw_dict) : pops'[p] = 0 /\ Count(tasks', p) = 0
            /\ DictKeys(jpg_dict') = DictKeys(jpg_dict) \ both
            /\ Len(tasks') = Cardinality(rawOnly)

C3_PairedPreviewsConsumedOnce == [][C3_IdentifyStep]_vars

\* the pairing has run on a directory with a paired raw file and an unpaired one
C3_Witness ==
    /\ pc = "convert"
    /\ \E p \in Prefixes : pops[p] = 1 /\ Has(raw_dict, p)
    /\ \E q \in Prefixes : pops[q] = 0 /\ Has(raw_dict, q) /\ Count(tasks, q) = 1

FailedTasks == {i \in DOMAIN taskState : taskState[i] \in {"fail", "taken_fail"}}

DetectFailures == {e \in log : e[1] = "detect_failed"}

\* C4: an asset whose conversion failed never has its preview in the review
\* list, is never rated, is not counted (every counted photo is a rated entry
\* of the review list), has no metadata written and is never selected for a
\* move or moved; and the run is never stuck before its end.
C4_FailedAssetExcluded ==
    /\ \A i \in FailedTasks :
          LET key == tasks[i]
              raw_file == <<key, Get(raw_dict, key)>>
          IN  /\ \A j \in DOMAIN files_tbr : files_tbr[j][1] # key
              /\ ~Has(file_ratings, key)
              /\ \A j \in DOMAIN star_3_photos : star_3_photos[j].file # raw_file
              /\ meta[raw_file] = None
              /\ raw_file \in root
              /\ \A j \in DOMAIN files_to_move : files_to_move[j].filename # raw_file
              /\ \A r \in RATING_FOLDER_NAMES :
                    FolderFile(raw_file, "moved") \notin folders[r].files
    /\ pc \in {"rate"} =>
          stats.total + Cardinality(DetectFailures) = Min(idx, Len(files_tbr) + 1) - 1
    /\ pc \in {"organize", "move", "moved", "cleanup", "done"} =>
          stats.total + Cardinality(DetectFailures) = Len(files_tbr)
    /\ (FailedTasks # {} /\ pc # "done") => ENABLED Next

\* a run has ended in which one conversion failed and a sibling was converted,
\* rated, moved and cleaned up
C4_Witness ==
    /\ pc = "done"
    /\ FailedTasks # {}
    /\ \E i \in DOMAIN taskState : taskState[i] = "taken_ok"
    /\ stats.total >= 1
    /\ moved_count >= 1
    /\ deleted_count >= 1

\* C5: whatever the interleaving, raw_to_jpeg is called at most once per task,
\* and when the pool stage has ended it was called exactly once per task and
\* the review list holds the preview of a task once if it succeeded and not
\* at all if it failed.
C5_EachTaskOnce ==
    /\ \A p \in Prefixes : convCalls[p] <= 1
    /\ \A i \in DOMAIN tasks :
          taskState[i] \in {"ok", "fail", "taken_ok", "taken_fail"} => convCalls[tasks[i]] = 1
    /\ pc = "rate" =>
          \A i \in DOMAIN tasks :
              /\ convCalls[tasks[i]] = 1
              /\ taskState[i] \in {"taken_ok", "taken_fail"}
              /\ Count(files_tbr, PreviewOf(tasks[i])) =
                     IF taskState[i] = "taken_ok" THEN 1 ELSE 0

\* the pool stage has ended with three tasks, more than the pool has threads,
\* of which one failed and one succeeded
C5_Witness ==
    /\ pc = "rate"
    /\ Len(tasks) > max_workers
    /\ \E i, j \in DOMAIN tasks : taskState[i] = "taken_ok" /\ taskState[j] = "taken_fail"

\* C6: every call of calculate returns a result whose rating is -1, 0, 2 or 3,
\* a call repeated with the same thresholds and inputs returns the same rating
\* and reason, and a call leaves the engine's thresholds as they were.
C6_Result ==
    /\ call.made =>
          /\ call.out.rating \in {-1, 0, 2, 3}
          /\ call.out.pick \in {-1, 0}
    /\ (call.made /\ prev.made) =>
          /\ prev.out.rating = call.out.rating
          /\ prev.out.reason = call.out.reason

C6_CallStep == call'.made => (engine' = engine /\ call'.eng = engine)

C6_PureAndTotal == [](C6_Result) /\ [][C6_CallStep]_vars

\* a call was repeated with the same inputs on an engine whose upgrade
\* thresholds had been changed, and returned rating 3 both times
C6_Witness ==
    /\ call.made
    /\ prev.made
    /\ call.out.rating = 3
    /\ engine.nima_threshold # DefaultNimaThreshold

\* C7: a detected photo that fails any floor check is rated 0.
C7_FloorsDominate ==
    (call.made /\ call.in.detected /\ FailsAnyFloor(call.eng, call.in)) =>
        call.out.rating = 0

\* a detected photo below the sharpness floor that meets both upgrade
\* thresholds was rated
C7_Witness ==
    /\ call.made
    /\ call.in.detected
    /\ call.in.sharpness < call.eng.min_sharpness
    /\ call.in.sharpness >= call.eng.sharpness_threshold
    /\ call.in.nima # None
    /\ call.in.nima[1] >= call.eng.nima_threshold
    /\ call.in.nima[1] >= call.eng.min_nima
    /\ call.in.confidence >= call.eng.min_confidence

\* C8: in _calculate_rating a detected photo that fails any floor check is
\* rated 0, whatever the 'selected' signal says.
C8_PipelineFloorsDominate ==
    (cliCall.made /\ cliCall.in.detected /\ FailsAnyFloor(cliCall.eng, cliCall.in)) =>
        cliCall.out.rating = 0

RecordedRatings == {file_ratings[i][2] : i \in DOMAIN file_ratings}

\* C9: every rating a run records (in file_ratings, in the statistics buckets)
\* is -1, 0, 2 or 3, and every pick written by the rating stage is -1 or 0.
C9_RecordedRatings ==
    /\ RecordedRatings \subseteq {-1, 0, 2, 3}
    /\ stats.star_1 = 0
    /\ pc = "rate" =>
          \A f \in RawNames : meta[f] # None => meta[f][1].pick \in {-1, 0}

\* the upgrade criteria of a call
CriterionS(c) == c.in.sharpness >= c.eng.sharpness_threshold

CriterionA(c) == c.in.nima # None /\ c.in.nima[1] >= c.eng.nima_threshold

DefaultEngine ==
    RatingEngine(DefaultMinConfidence, DefaultMinSharpness, DefaultMinNima,
                 DefaultMaxBrisque, DefaultSharpnessThreshold, DefaultNimaThreshold)

\* the example of the specification: 0.80, 8000, 5.0, 20
ExampleInput ==
    [detected |-> TRUE, confidence |-> 80, sharpness |-> 8000, nima |-> Some(50),
     brisque |-> Some(20)]

\* C10: for a detected photo that passes every floor check the rating is 3
\* when both upgrade criteria hold, 2 when exactly one holds and 0 when none
\* holds; the example of the specification is rated 3.
C10_UpgradeTable ==
    /\ (call.made /\ call.in.detected /\ ~FailsAnyFloor(call.eng, call.in)) =>
          call.out.rating =
              IF CriterionS(call) /\ CriterionA(call) THEN 3
              ELSE IF CriterionS(call) \/ CriterionA(call) THEN 2
              ELSE 0
    /\ (call.made /\ call.eng = DefaultEngine /\ call.in = ExampleInput) =>
          call.out.rating = 3

\* the example was rated by an engine with the default thresholds
C10_Witness ==
    /\ call.made
    /\ call.eng = DefaultEngine
    /\ call.in = ExampleInput
    /\ call.out.rating = 3

\* the second example of the specification: 0.80, 8000, 4.0, 20
SecondExampleInput ==
    [detected |-> TRUE, confidence |-> 80, sharpness |-> 8000, nima |-> Some(40),
     brisque |-> Some(20)]

SecondExampleCalled ==
    call.made /\ call.eng = DefaultEngine /\ call.in = SecondExampleInput

\* C11 as the specification states it: with the default thresholds the
\* example 0.80, 8000, 4.0, 20 is rated 2.
C11_ExampleRatedTwo == SecondExampleCalled => call.out.rating = 2

\* C11, amended: with the default thresholds the example 0.80, 8000, 4.0, 20
\* is rated 0 with the aesthetic-floor reason, its nima 4.0 is below min_nima 4.3.
C11_ExampleRatedZero ==
    SecondExampleCalled =>
        /\ call.out.rating = 0
        /\ call.out.reason = <<"nima_low", 40, DefaultMinNima>>

\* the example was rated by an engine with the default thresholds
C11_Witness == SecondExampleCalled /\ call.out.rating = 0

\* the rules of calculate in their order; the two single-criterion reasons
\* belong to one rule
RuleOrder ==
    <<"no_bird", "confidence_low", "brisque_high", "nima_low", "sharpness_low",
      "dual_qualified", "single_qualified", "not_qualified">>

RuleMatches(kind, th, in) ==
    LET S == in.sharpness >= th.sharpness_threshold
        A == in.nima # None /\ in.nima[1] >= th.nima_threshold
    IN  CASE kind = "no_bird" -> ~in.detected
          [] kind = "confidence_low" -> in.confidence < th.min_confidence
          [] kind = "brisque_high" -> in.brisque # None /\ in.brisque[1] > th.max_brisque
          [] kind = "nima_low" -> in.nima # None /\ in.nima[1] < th.min_nima
          [] kind = "sharpness_low" -> in.sharpness < th.min_sharpness
          [] kind = "dual_qualified" -> S /\ A
          [] kind = "single_qualified" -> S \/ A
          [] kind = "not_qualified" -> TRUE

FirstRule(th, in) ==
    RuleOrder[CHOOSE i \in DOMAIN RuleOrder :
                 /\ RuleMatches(RuleOrder[i], th, in)
                 /\ \A j \in 1..(i - 1) : ~RuleMatches(RuleOrder[j], th, in)]

RuleRating(kind) ==
    CASE kind = "no_bird" -> -1
      [] kind = "dual_qualified" -> 3
      [] kind = "single_qualified" -> 2
      [] OTHER -> 0

ReasonRule(reason) ==
    IF reason[1] \in {"sharpness_qualified", "nima_qualified"}
    THEN "single_qualified" ELSE reason[1]

\* C12: the result of calculate is that of the first rule, in the order
\* not-detected, confidence, brisque, nima, sharpness, dual, single, default,
\* that matches; a detected photo below min_confidence is rated 0 with the
\* confidence reason whatever its other scores.
C12_FirstRuleWins ==
    call.made =>
        /\ ReasonRule(call.out.reason) = FirstRule(call.eng, call.in)
        /\ call.out.rating = RuleRating(FirstRule(call.eng, call.in))
        /\ (call.in.detected /\ call.in.confidence < call.eng.min_confidence) =>
              /\ call.out.rating = 0
              /\ call.out.reason =
                     <<"confidence_low", call.in.confidence, call.eng.min_confidence>>

\* a photo that fails the confidence, the brisque and the sharpness floor was
\* rated with the confidence reason
C12_Witness ==
    /\ call.made
    /\ call.in.detected
    /\ call.in.confidence = 30
    /\ call.in.brisque = Some(60)
    /\ call.in.sharpness < call.eng.min_sharpness
    /\ call.out.reason[1] = "confidence_low"

\* C13: with brisque missing the distortion floor gives no rating 0, with nima
\* missing the aesthetic floor gives no rating 0, and with nima missing the
\* rating is never 3 and is 2 exactly when the photo is detected, passes the
\* confidence, distortion and sharpness floors and meets sharpness_threshold.
C13_MissingScores ==
    call.made =>
        /\ call.in.brisque = None => call.out.reason[1] # "brisque_high"
        /\ call.in.nima = None =>
              /\ call.out.reason[1] # "nima_low"
              /\ call.out.rating # 3
              /\ call.out.rating = 2 <=>
                    /\ call.in.detected
                    /\ call.in.confidence >= call.eng.min_confidence
                    /\ ~(call.in.brisque # None /\ call.in.brisque[1] > call.eng.max_brisque)
                    /\ call.in.sharpness >= call.eng.min_sharpness
                    /\ call.in.sharpness >= call.eng.sharpness_threshold

\* a photo with neither optional score was rated 2
C13_Witness ==
    /\ call.made
    /\ call.in.nima = None
    /\ call.in.brisque = None
    /\ call.out.rating = 2

\* the pick of a result: -1 with rating -1 when nothing was detected, 0 with
\* another rating otherwise
PickOfRatingStep(detected, result) ==
    /\ result.pick = (IF detected THEN 0 ELSE -1)
    /\ result.rating = -1 <=> ~detected

EngineChoices ==
    { RatingEngine(f.min_confidence, f.min_sharpness, f.min_nima, f.max_brisque, s, n) :
        f \in FloorChoices, s \in SharpnessThresholdChoices, n \in NimaThresholdChoices }

\* the files whose metadata carries pick = +1
PickedInMeta == {f \in RawNames : ~IsNone(meta[f]) /\ Val(meta[f]).pick = 1}

\* C14: the rating step never assigns pick = +1: RatingEngine.calculate and
\* _calculate_rating return pick -1 exactly when the photo is not detected
\* (rating -1) and 0 otherwise, and no file carries pick = +1 before the
\* selection over the three-star cohort has run.
C14_RatingNeverPicks ==
    /\ pc = "scan" =>
          /\ \A eng \in EngineChoices, in \in EngineInputs :
                PickOfRatingStep(in.detected,
                                 calculate(eng, in.detected, in.confidence, in.sharpness,
                                           in.nima, in.brisque))
          /\ \A in \in CliInputs :
                PickOfRatingStep(in.detected,
                                 _calculate_rating(config, in.detected, in.selected,
                                                   in.confidence, in.sharpness, in.nima,
                                                   in.brisque))
    /\ pc \in {"scan", "identify", "convert", "rate"} => PickedInMeta = {}

\* the selection has run after the rating loop and a raw file rated 3 by the
\* loop carries pick = +1
C14_Witness ==
    /\ pc = "organize"
    /\ \E f \in PickedInMeta :
          /\ Has(file_ratings, f[1])
          /\ Get(file_ratings, f[1]) = 3

\* C15: for a cohort of N >= 1 candidates and percentage P the selector uses
\* top_count = max(1, floor(N * P / 100)).
C15_TopCountIsFloor ==
    topCall.made => topCall.out = Max(1, (topCall.in * topCall.eng) \div 100)

\* the candidates of the cohort with a strictly greater score than c, and the
\* other candidates with a score at least c's
StrictlyAbove(c, key) == {i \in DOMAIN star_3_photos : star_3_photos[i][key] > c[key]}

NotBelow(c, key) ==
    {i \in DOMAIN star_3_photos : star_3_photos[i] # c /\ star_3_photos[i][key] >= c[key]}

CohortFiles == {star_3_photos[i].file : i \in DOMAIN star_3_photos}

CandidateOf(f) == star_3_photos[CHOOSE i \in DOMAIN star_3_photos : star_3_photos[i].file = f]

\* within the first top_count of every descending ranking by key
SurelyTop(c, key, top_count) == Cardinality(NotBelow(c, key)) < top_count

\* within the first top_count of some descending ranking by key
PossiblyTop(c, key, top_count) == Cardinality(StrictlyAbove(c, key)) < top_count

PickFailed == \E e \in log : e[1] = "pick_failed"

\* C16: the picked set is the intersection of the first top_count candidates
\* of the descending-nima ranking and of the descending-sharpness ranking:
\* every picked candidate has fewer than top_count cohort members with
\* strictly greater nima and fewer than top_count with strictly greater
\* sharpness, a candidate that is within the first top_count of both rankings
\* however ties are ordered is picked when its write succeeds, nothing else
\* is written, and when no candidate is in both the selector records
\* picked = 0 and writes no pick flag.
C16_PickedIsIntersection ==
    (pc = "organize" /\ topCall.made) =>
        /\ PickedInMeta \subseteq CohortFiles
        /\ \A f \in PickedInMeta :
              /\ PossiblyTop(CandidateOf(f), "nima", topCall.out)
              /\ PossiblyTop(CandidateOf(f), "sharpness", topCall.out)
        /\ ~PickFailed =>
              \A f \in CohortFiles :
                  (/\ SurelyTop(CandidateOf(f), "nima", topCall.out)
                   /\ SurelyTop(CandidateOf(f), "sharpness", topCall.out)) => f \in PickedInMeta
        /\ stats.picked = Cardinality(PickedInMeta)
        /\ \A f \in RawNames \ PickedInMeta :
              meta[f] = IF f \in CohortFiles THEN Some(MetaRecord(3, 0)) ELSE None
        /\ (\A f \in CohortFiles :
                \/ ~PossiblyTop(CandidateOf(f), "nima", topCall.out)
                \/ ~PossiblyTop(CandidateOf(f), "sharpness", topCall.out)) =>
              (stats.picked = 0 /\ PickedInMeta = {} /\ ~PickFailed)

\* a cohort of four with top_count 2: two candidates lead both rankings and
\* are picked, a third leads one ranking only and is not
C16_Witness ==
    /\ pc = "organize"
    /\ topCall.made
    /\ topCall.out = 2
    /\ Cardinality(PickedInMeta) = 2
    /\ \E f \in CohortFiles \ PickedInMeta :
          /\ SurelyTop(CandidateOf(f), "nima", 3)
          /\ Cardinality(StrictlyAbove(CandidateOf(f), "nima")) = 0
          /\ ~PossiblyTop(CandidateOf(f), "sharpness", topCall.out)

\* the same candidates accumulated in every other order
Reaccumulated(photos) ==
    {[i \in DOMAIN photos |-> photos[order[i]]] : order \in Orders(DOMAIN photos)}

\* C17: for the same set of candidates the picked set is the same whatever
\* the order in which the candidates were accumulated, also when candidates
\* tie on nima or on sharpness.
C17_OrderIndependent ==
    (pc = "organize" /\ topCall.made /\ ~PickFailed) =>
        \A photos \in Reaccumulated(star_3_photos) :
            PickedFiles(photos, config.picked_top_percentage) = PickedInMeta

\* C18: every candidate handed to the selector was rated in this run, the
\* picked set is a subset of the candidates, and pick = +1 is written only to
\* photos whose rating, as the run recorded it, is 3.
C18_PickedAreRatedThree ==
    /\ \A i \in DOMAIN star_3_photos : Has(file_ratings, star_3_photos[i].file[1])
    /\ PickedInMeta \subseteq CohortFiles
    /\ \A f \in PickedInMeta : Get(file_ratings, f[1]) = 3

\* the raw files of the assets whose recorded rating is 1, 2 or 3
RatedRawFiles ==
    {<<p, Get(raw_dict, p)>> :
        p \in {q \in DictKeys(file_ratings) \cap DictKeys(raw_dict) :
                  Get(file_ratings, q) \in {1, 2, 3}}}

\* C19: the organizer attempts to move exactly the assets whose raw file is on
\* disk and whose recorded rating is 1, 2 or 3, each once; every other file of
\* the directory (a raw file rated 0 or -1, a file without a raw counterpart,
\* a preview) stays in the root throughout the move step, and the move step
\* adds no file to the root and changes a rating folder only under the names
\* of the files it attempts.
C19_MoveFrameStep ==
    /\ (pc = "organize" /\ organize_files) =>
          /\ {files_to_move'[i].filename : i \in DOMAIN files_to_move'} = RatedRawFiles \cap root
          /\ Len(files_to_move') = Cardinality(RatedRawFiles \cap root)
          /\ \A i \in DOMAIN files_to_move' :
                files_to_move'[i].rating = Get(file_ratings, files_to_move'[i].filename[1])
          /\ root' = root
    /\ pc \in {"organize", "move"} =>
          /\ root' \subseteq root
          /\ root \ root' \subseteq RatedRawFiles
          /\ meta' = meta
          /\ \A r \in RATING_FOLDER_NAMES :
                {x \in folders[r].files : x.name \notin RatedRawFiles}
                    = {x \in folders'[r].files : x.name \notin RatedRawFiles}

C19_MoveFrame == [][C19_MoveFrameStep]_vars

\* the move step is over: it has moved a raw file, and a raw file rated 0 or
\* -1 and a preview are still in the root
C19_Witness ==
    /\ pc = "moved"
    /\ moved_count >= 1
    /\ \E f \in root :
          /\ f[2] \in raw_extensions
          /\ Has(file_ratings, f[1])
          /\ Get(file_ratings, f[1]) \in {0, -1}
    /\ \E f \in root : f[2] \in jpg_extensions

\* C20: every invocation of the move step writes one manifest, after its last
\* move attempt, also when every move is skipped and when there is nothing to
\* move.  Stated for the invocations whose manifest write did not raise: when
\* the invocation is over, the manifest on disk is the one it wrote.
C20_ManifestEveryInvocation ==
    (/\ pc = "moved"
     /\ invocation >= 1
     /\ \A e \in log : e[1] # "manifest_failed") =>
        /\ manifest # None
        /\ manifest[1].created = invocation

\* the file records of the manifest on disk that carry rating r
ManifestRecords(r) == {i \in DOMAIN manifest[1].files : manifest[1].files[i].rating = r}

\* the bucket of self.stats for a rating of 1, 2 or 3
StarBucket(r) == IF r = 3 THEN stats.star_3 ELSE IF r = 2 THEN stats.star_2 ELSE stats.star_1

\* C21: after a run that writes a manifest, the number of file records per
\* rating in the manifest equals the bucket count the statistics recorded for
\* that rating, for each of the ratings 1, 2 and 3.
C21_ManifestMatchesStats ==
    (pc = "done" /\ manifest # None) =>
        \A r \in RATING_FOLDER_NAMES : Cardinality(ManifestRecords(r)) = StarBucket(r)

ManifestFailed == \E e \in log : e[1] = "manifest_failed"

\* the files of files_to_move that are in their rating's folder with the bytes
\* the move step put there, and no longer in the root
AtDestination ==
    {i \in DOMAIN files_to_move :
        /\ FolderFile(files_to_move[i].filename, "moved")
               \in folders[files_to_move[i].folder].files
        /\ files_to_move[i].filename \notin root}

\* C22: when the manifest write fails, the failure is logged as a warning,
\* every file the invocation moved stays in its destination folder from then
\* on, and the run goes on: it is in the stages after the move step and, until
\* the summary, always has a next step.
C22_ManifestFailureKeepsMoves ==
    ManifestFailed =>
        /\ pc \in {"moved", "cleanup", "done"}
        /\ Cardinality(AtDestination) = moved_count
        /\ pc # "done" => ENABLED Next

\* the manifest write failed after a file had been moved, and the run has
\* gone through the cleanup to its summary
C22_Witness ==
    /\ ManifestFailed
    /\ moved_count >= 1
    /\ cleanup_temp
    /\ pc = "done"

\* the previews of the review list whose prefix has no raw file
StandalonePreviews ==
    {files_tbr[i] : i \in {j \in DOMAIN files_tbr : ~Has(raw_dict, files_tbr[j][1])}}

\* the raw files the scan found
ScannedRaws == {<<p, Get(raw_dict, p)>> : p \in DictKeys(raw_dict)}

\* C23: the cleanup deletes only previews whose prefix is in the raw map: at
\* every point of a run after the scan, every preview the scan listed whose
\* prefix has no raw counterpart is still in the directory, and every raw file
\* the scan found is in the directory or in the rating folder it was moved to.
C23_CleanupKeepsStandalone ==
    pc # "scan" =>
        /\ StandalonePreviews \subseteq root
        /\ \A f \in ScannedRaws :
              \/ f \in root
              \/ \E r \in RATING_FOLDER_NAMES : FolderFile(f, "moved") \in folders[r].files

\* a run with cleanup is over: it deleted a paired preview, and a preview
\* without a raw counterpart and a raw file are still in the directory
C23_Witness ==
    /\ pc = "done"
    /\ cleanup_temp
    /\ deleted_count >= 1
    /\ StandalonePreviews # {}
    /\ ScannedRaws \cap root # {}

\* the stages of process() in the order of its body; "move" and "moved" are
\* the loop and the end of stage 5, "done" the summary
StageOrder == <<"scan", "identify", "convert", "rate", "organize", "move", "moved", "cleanup", "done">>

StageRank(stage) == CHOOSE i \in DOMAIN StageOrder : StageOrder[i] = stage

\* the photos of the review list the rating loop is through with
HandledPhotos == stats.total + Cardinality({e \in log : e[1] = "detect_failed"})

MovedFiles == {x \in UNION {folders[r].files : r \in RATING_FOLDER_NAMES} : x.content = "moved"}

C24_StageStep == StageRank(pc') >= StageRank(pc)

C24_StageState ==
    /\ StageRank(pc) >= StageRank("organize") => HandledPhotos = Len(files_tbr)
    /\ StageRank(pc) < StageRank("organize") => (stats.picked = 0 /\ PickedInMeta = {})
    /\ StageRank(pc) <= StageRank("organize") => (MovedFiles = {} /\ moved_count = 0)
    /\ StageRank(pc) <= StageRank("moved") => deleted_count = 0
    /\ (StageRank(pc) >= StageRank("rate") /\ StageRank(pc) <= StageRank("moved")) =>
          {files_tbr[i] : i \in DOMAIN files_tbr} \subseteq root

\* C24: the stages run in the order scan, conversion, rating, selection,
\* organize, cleanup, statistics and never go back: the selection has written
\* nothing before the rating loop is through with every photo of the review
\* list, no file is moved before the selection is over, and no preview is
\* deleted before the organize stage is over.
C24_StagesInOrder == [](C24_StageState) /\ [][C24_StageStep]_vars

\* a run with every stage is over: it picked, moved and deleted
C24_Witness ==
    /\ pc = "done"
    /\ stats.picked >= 1
    /\ moved_count >= 1
    /\ deleted_count >= 1

\* the photo at the head of the rating loop has just failed detection
DetectionFailsNow ==
    /\ pc = "rate"
    /\ idx <= Len(files_tbr)
    /\ log' # log

\* the previews of the review list that share the prefix of filename
SamePrefixPreviews(filename) ==
    {i \in DOMAIN files_tbr : files_tbr[i][1] = filename[1] /\ files_tbr[i] # filename}

C25_FailureStep ==
    DetectionFailsNow =>
        /\ log' = log \cup {<<"detect_failed", files_tbr[idx]>>}
        /\ UNCHANGED <<stats, file_ratings, star_3_photos, meta, root, folders, manifest>>
        /\ idx' = idx + 1
        /\ pc' = "rate"

C25_FailureState ==
    /\ \A e \in DetectFailures :
          LET key == e[2][1]
              raw_file == <<key, Get(raw_dict, key)>>
          IN  (SamePrefixPreviews(e[2]) = {}) =>
                /\ ~Has(file_ratings, key)
                /\ \A j \in DOMAIN files_to_move : files_to_move[j].filename[1] # key
                /\ Has(raw_dict, key) =>
                      /\ meta[raw_file] = None
                      /\ \A j \in DOMAIN star_3_photos : star_3_photos[j].file # raw_file
                      /\ \A r \in RATING_FOLDER_NAMES :
                            FolderFile(raw_file, "moved") \notin folders[r].files
    /\ StageRank(pc) >= StageRank("organize") =>
          stats.total = Len(files_tbr) - Cardinality(DetectFailures)
    /\ (DetectFailures # {} /\ pc # "done") => ENABLED Next

\* C25: when detection fails for a photo, the turn of the loop logs it and
\* changes nothing else: no rating, no statistics bucket, no metadata; the
\* photo's raw file (when no other preview of its prefix is rated) is never
\* selected for a move nor moved; every other photo is still handled: the loop
\* goes on with the state it had before the failing photo, and the counted
\* photos are the review list without the failed ones.
C25_DetectionFailureIsolated == [](C25_FailureState) /\ [][C25_FailureStep]_vars

\* a run is over in which detection failed for the photo of one raw file and
\* the photo of another was rated and moved
C25_Witness ==
    /\ pc = "done"
    /\ \E e \in DetectFailures :
          /\ Has(raw_dict, e[2][1])
          /\ SamePrefixPreviews(e[2]) = {}
          /\ <<e[2][1], Get(raw_dict, e[2][1])>> \in root
    /\ stats.total >= 1
    /\ moved_count >= 1

MoveFailed(filename) == <<"move_failed", filename>> \in log

DeleteFailed(filename) == <<"delete_failed", filename>> \in log

\* the turns of the move loop that are over, and those of the cleanup loop
MoveTurnsDone ==
    IF pc = "move" THEN 1..(idx - 1)
    ELSE IF pc \in {"moved", "cleanup", "done"} THEN DOMAIN files_to_move ELSE {}

CleanupTurnsDone ==
    IF pc = "cleanup" THEN 1..(idx - 1)
    ELSE IF pc = "done" /\ cleanup_temp THEN DOMAIN files_tbr ELSE {}

\* the outcome of a turn of the move loop: moved, or left alone because the
\* folder holds a file of that name, or failed
MoveAttempted(i) ==
    LET file_info == files_to_move[i]
    IN  \/ i \in AtDestination /\ ~MoveFailed(file_info.filename)
        \/ /\ file_info.filename \in root
           /\ \/ MoveFailed(file_info.filename)
              \/ FolderFile(file_info.filename, "prior") \in folders[file_info.folder].files

TempPreviewTurns == {i \in CleanupTurnsDone : IsTempPreview(files_tbr[i], raw_dict)}

\* C26: a failure to move one file or to delete one preview stops nothing
\* else: every turn of the two loops that is over has moved, skipped or failed
\* its own file (deleted or failed, for the cleanup), moved_count and
\* deleted_count count the successes only, the manifest written after a move
\* failure reports every selected file and the successes, and the run always
\* has a next step until its summary.
C26_FileFailureIsLocal ==
    /\ \A i \in MoveTurnsDone : MoveAttempted(i)
    /\ moved_count = Cardinality(AtDestination \cap MoveTurnsDone)
    /\ \A i \in DOMAIN files_to_move \ MoveTurnsDone : files_to_move[i].filename \in root
    /\ (pc \in {"moved", "cleanup", "done"} /\ files_to_move # <<>> /\ ~ManifestFailed) =>
          /\ manifest # None
          /\ manifest[1].files = files_to_move
          /\ manifest[1].total_moved = moved_count
    /\ \A i \in TempPreviewTurns : files_tbr[i] \notin root \/ DeleteFailed(files_tbr[i])
    /\ pc \in {"cleanup", "done"} =>
          deleted_count = Cardinality({i \in TempPreviewTurns : files_tbr[i] \notin root})
    /\ ((\E e \in log : e[1] \in {"move_failed", "delete_failed"}) /\ pc # "done") =>
          ENABLED Next

\* a run is over in which one move and one deletion failed, another file was
\* moved and another preview deleted, and the manifest was written
C26_Witness ==
    /\ pc = "done"
    /\ \E e \in log : e[1] = "move_failed"
    /\ \E e \in log : e[1] = "delete_failed"
    /\ moved_count >= 1
    /\ deleted_count >= 1
    /\ manifest # None
    /\ manifest[1].total_moved = 1
    /\ Len(manifest[1].files) = 2

Buckets == {"star_3", "star_2", "star_1", "star_0", "no_bird"}

BucketSum(st) == st.star_3 + st.star_2 + st.star_1 + st.star_0 + st.no_bird

C27_StatsState ==
    /\ stats.total = BucketSum(stats)
    /\ stats.picked >= 0
    /\ stats.picked <= stats.star_3

\* a turn of the rating loop that rates its photo
C27_RatedStep ==
    (pc = "rate" /\ idx <= Len(files_tbr) /\ log' = log) =>
        /\ stats'.total = stats.total + 1
        /\ \E b \in Buckets :
              /\ stats'[b] = stats[b] + 1
              /\ \A c \in Buckets \ {b} : stats'[c] = stats[c]
        /\ stats'.picked = stats.picked

\* C27: after any sequence of rated photos total = star_3 + star_2 + star_1 +
\* star_0 + no_bird, each rated photo increments the total and exactly one
\* bucket by one, and the picked count is between 0 and the star_3 count.
C27_StatsConsistent == [](C27_StatsState) /\ [][C27_RatedStep]_vars

\* a run is over in which photos fell into two different buckets, one of them
\* a three-star photo that was picked
C27_Witness ==
    /\ pc = "done"
    /\ stats.total >= 2
    /\ stats.star_3 >= 1
    /\ stats.picked = 1
    /\ stats.star_1 >= 1

\* the rating folders that hold the bytes of filename the move step put there
FoldersHolding(filename) ==
    {r \in RATING_FOLDER_NAMES : FolderFile(filename, "moved") \in folders[r].files}

\* the number of places a selected raw file is at
Places(filename) == (IF filename \in root THEN 1 ELSE 0) + Cardinality(FoldersHolding(filename))

C28_ConservedState ==
    pc \in {"move", "moved"} =>
        \A i \in DOMAIN files_to_move :
            /\ Places(files_to_move[i].filename) = 1
            /\ FoldersHolding(files_to_move[i].filename) \subseteq {files_to_move[i].rating}
            /\ files_to_move[i].folder = files_to_move[i].rating
            /\ files_to_move[i].rating = Get(file_ratings, files_to_move[i].filename[1])

C28_FolderStep ==
    \A r \in RATING_FOLDER_NAMES :
        /\ folders[r].exists => folders'[r].exists
        /\ (folders'[r].exists /\ ~folders[r].exists) =>
              /\ pc = "organize"
              /\ \E i \in DOMAIN files_to_move' : files_to_move'[i].rating = r

\* C28: during and after the move step every raw file selected for moving is
\* in exactly one place, its original path or the folder RATING_FOLDER_NAMES
\* gives its own rating, never in the folder of another rating; and a folder
\* is created only at the start of the step and only for a rating that a
\* selected file has.
C28_MoveConservesFiles == [](C28_ConservedState) /\ [][C28_FolderStep]_vars

\* the move step is over: one selected file is in the folder of its rating,
\* which the step created, and another is still in the root
C28_Witness ==
    /\ pc = "moved"
    /\ Len(files_to_move) = 2
    /\ \E i, j \in DOMAIN files_to_move :
          /\ FoldersHolding(files_to_move[i].filename) = {files_to_move[i].rating}
          /\ files_to_move[j].filename \in root
          /\ files_to_move[j].rating # files_to_move[i].rating
          /\ folders[files_to_move[j].rating].exists

=============================================================================
